---------------------------- MODULE Spec2Model ----------------------------
(***************************************************************************)
(* A model of the near-Earth-object database: the record constructors of   *)
(* models.py, the loaders of extract.py, and the linked store with its     *)
(* two lookup indexes and its query generator (database.py).               *)
(*                                                                         *)
(* Python values are records [type, val]: val is always a sequence of      *)
(* strings (the characters, or chunks of characters, of a str; the repr of *)
(* a float or a bool; empty for None), so that None, "" and "None" are     *)
(* three different values.  An object is a function from attribute names   *)
(* to values; hasattr is membership in its DOMAIN.  A reference to an      *)
(* object of a collection is its 1-based position; NoRef is None.          *)
(***************************************************************************)
EXTENDS Naturals, Sequences, FiniteSets

VARIABLES
  phase,                  \* "load" (extract.py is running) or "ready" (store built)
  neos,                   \* NEODatabase._neos: sequence of NearEarthObject
  approaches,             \* NEODatabase._approaches: sequence of CloseApproach
  designation_index_map,  \* NEODatabase.designation_index_map
  name_to_index_map,      \* NEODatabase.name_to_index_map
  gen,                    \* the generator object of the latest query call
  ret                     \* the latest call: [op, arg, val], val what it returned

vars == <<phase, neos, approaches, designation_index_map, name_to_index_map, gen, ret>>

----------------------------------------------------------------------------
(* Bounds of the model *)

MaxNeos == 2
MaxApproaches == 2
MaxFilters == 2
MaxRawLen == 3

----------------------------------------------------------------------------
(* Python values *)

None == [type |-> "NoneType", val |-> <<>>]
Str(chars) == [type |-> "str", val |-> chars]
Float(repr) == [type |-> "float", val |-> <<repr>>]
Bool(b) == [type |-> "bool", val |-> IF b THEN <<"True">> ELSE <<"False">>]
Exc(kind) == [type |-> kind, val |-> <<>>]
NoRef == 0

IsStr(v) == v.type = "str"

\* An object whose construction raised holds only the exception.
Raise(kind) == [a \in {"__exception__"} |-> Exc(kind)]
Raised(self) == "__exception__" \in DOMAIN self

hasattr(self, a) == a \in DOMAIN self
SetAttr(self, a, v) == [x \in DOMAIN self \cup {a} |-> IF x = a THEN v ELSE self[x]]

\* len(x) of a str; len(None) raises TypeError, which the callers guard.
len(v) == Len(v.val)

Whitespace == {" ", "\t", "\n", "\r", "\f"}

RECURSIVE lstrip(_, _)
lstrip(s, cs) == IF s # <<>> /\ Head(s) \in cs THEN lstrip(Tail(s), cs) ELSE s

RECURSIVE rstrip(_, _)
rstrip(s, cs) ==
  IF s # <<>> /\ s[Len(s)] \in cs THEN rstrip(SubSeq(s, 1, Len(s) - 1), cs) ELSE s

UpperChar(c) ==
  CASE c = "y" -> "Y" [] c = "n" -> "N" [] c = "e" -> "E" [] OTHER -> c

upper(v) == Str([i \in 1..Len(v.val) |-> UpperChar(v.val[i])])

\* float(x): a float is returned as it is; a str is parsed (the literals the
\* model's rows use, each with the repr Python gives the parsed float);
\* any other str raises ValueError, None raises TypeError.
FloatLiteral(chars) ==
  CASE chars = <<"5.5">> -> <<"5.5">>
    [] chars = <<"12">> -> <<"12.0">>
    [] chars = <<"0.150">> -> <<"0.15">>
    [] chars = <<"16.84">> -> <<"16.84">>
    [] chars = <<"22.1">> -> <<"22.1">>
    [] chars = <<"2458849.75">> -> <<"2458849.75">>
    [] chars = <<"nan">> -> <<"nan">>
    [] OTHER -> <<>>

float(v) ==
  CASE v.type = "float" -> v
    [] v.type = "str" ->
         IF FloatLiteral(v.val) = <<>> THEN Exc("ValueError")
         ELSE Float(FloatLiteral(v.val)[1])
    [] OTHER -> Exc("TypeError")

IsExc(v) == v.type \in {"ValueError", "TypeError", "AttributeError"}

----------------------------------------------------------------------------
(* constants.py *)

NEO_ID_FIELD == Str(<<"id">>)
NEO_PRIMARY_DESIGNATION_FIELD == Str(<<"pdes">>)
NEO_NAME_FIELD == Str(<<"name">>)
NEO_DIAMETER_FIELD == Str(<<"diameter">>)
NEO_HAZARD_FIELD == Str(<<"pha">>)

CA_PRIMARY_DESIGNATION_FIELD == Str(<<"des">>)
CA_ORBIT_ID == Str(<<"orbit_id">>)
CA_TIME_OF_CLOSE_APPROACH_JD == Str(<<"jd">>)
CA_TIME_OF_CLOSE_APPROACH_CD_FORMATTED == Str(<<"cd">>)
CA_APPROACH_DISTANCE_AU == Str(<<"dist">>)
CA_APPROACH_DISTANCE_MIN_AU == Str(<<"dist_min">>)
CA_APPROACH_DISTANCE_MAX_AU == Str(<<"dist_max">>)
CA_RELATIVE_VELOCITY_TO_APPROACH_BODY_KMS == Str(<<"v_rel">>)
CA_RELATIVE_VELOCITY_TO_MASSLESS_BODY_KMS == Str(<<"v_inf">>)
CA_THREE_SIGMA_TIME_UNCERTAINTY == Str(<<"t_sigma_f">>)
CA_ABSOLUTE_MAGNITUDE == Str(<<"h">>)

----------------------------------------------------------------------------
(* helpers.py: the calendar-date conversions (not part of the sources at   *)
(* hand; modelled from their specification: "YYYY-Mon-DD hh:mm", minute    *)
(* precision, rendered without seconds).                                   *)

cd_to_datetime(v) ==
  CASE v = Str(<<"2020-Jan-01 06:00">>) ->
         [type |-> "datetime", val |-> <<"2020", "01", "01", "06", "00">>]
    [] v = Str(<<"2021-Feb-3 12:30">>) ->
         [type |-> "datetime", val |-> <<"2021", "02", "03", "12", "30">>]
    [] OTHER -> Exc("ValueError")

datetime_to_str(t) ==
  CASE t.val = <<"2020", "01", "01", "06", "00">> -> Str(<<"2020-Jan-01 06:00">>)
    [] t.val = <<"2021", "02", "03", "12", "30">> -> Str(<<"2021-Feb-03 12:30">>)
    [] OTHER -> Exc("ValueError")

----------------------------------------------------------------------------
(* models.py: NearEarthObject *)

neaten_name(name) ==
  LET first  == lstrip(name, {"\""})
      second == rstrip(first, {"\""})
      third  == lstrip(second, Whitespace)
      fourth == rstrip(third, Whitespace)
  IN  fourth

\* The name branch of the constructor's loop (models.py lines 72-79).
NeoName(data) ==
  LET formatted_name == neaten_name(data.val)
  IN  IF Len(formatted_name) = 0 THEN None ELSE Str(formatted_name)

\* One turn of the constructor's loop: the pair (data, field).
NeoField(self, data, field) ==
  CASE field = NEO_ID_FIELD -> SetAttr(self, "id", data)
    [] field = NEO_PRIMARY_DESIGNATION_FIELD -> SetAttr(self, "designation", data)
    [] field = NEO_NAME_FIELD -> SetAttr(self, "name", NeoName(data))
    [] field = NEO_DIAMETER_FIELD ->
         LET diameter == IF len(data) = 0 THEN float(Str(<<"nan">>)) ELSE data
             parsed == float(diameter)
         IN  IF IsExc(parsed) THEN Raise(parsed.type)
             ELSE SetAttr(self, "diameter", parsed)
    [] field = NEO_HAZARD_FIELD ->
         IF upper(data) = Str(<<"Y">>) THEN SetAttr(self, "hazardous", Bool(TRUE))
         ELSE self
    [] OTHER -> self

RECURSIVE NeoLoop(_, _)
NeoLoop(self, zipped_item) ==
  IF zipped_item = <<>> \/ Raised(self) THEN self
  ELSE NeoLoop(NeoField(self, Head(zipped_item)[1], Head(zipped_item)[2]),
               Tail(zipped_item))

NearEarthObject(zipped_item) ==
  LET self == NeoLoop([a \in {"hazardous"} |-> Bool(FALSE)], zipped_item)
  IN  IF Raised(self) THEN self ELSE SetAttr(self, "approaches", <<>>)

----------------------------------------------------------------------------
(* models.py: CloseApproach *)

\* float(data) with the fallback of lines 181-183, 185-187 and 189-191.
FloatOrZero(data) ==
  IF data = None \/ len(data) = 0 THEN float(Float("0.0")) ELSE float(data)

\* Lines 194-198: float(data) is computed and compared with the attribute;
\* nothing is assigned unless data is None.
Magnitude(self, data) ==
  IF data # None
  THEN IF IsExc(float(data)) THEN Raise(float(data).type) ELSE self
  ELSE SetAttr(self, "magnitude", Float("0.0"))

SetParsed(self, a, parsed) ==
  IF IsExc(parsed) THEN Raise(parsed.type) ELSE SetAttr(self, a, parsed)

CaField(self, data, header) ==
  CASE header = CA_PRIMARY_DESIGNATION_FIELD -> SetAttr(self, "_designation", data)
    [] header = CA_ORBIT_ID -> SetAttr(self, "orbit_id", data)
    [] header = CA_TIME_OF_CLOSE_APPROACH_JD -> SetParsed(self, "jd_time", float(data))
    [] header = CA_TIME_OF_CLOSE_APPROACH_CD_FORMATTED ->
         SetParsed(self, "time", cd_to_datetime(data))
    [] header = CA_APPROACH_DISTANCE_AU -> SetParsed(self, "distance", float(data))
    [] header = CA_APPROACH_DISTANCE_MIN_AU ->
         SetParsed(self, "approach_distance_min", float(data))
    [] header = CA_APPROACH_DISTANCE_MAX_AU ->
         SetParsed(self, "approach_distance_max", FloatOrZero(data))
    [] header = CA_RELATIVE_VELOCITY_TO_APPROACH_BODY_KMS ->
         SetParsed(self, "velocity", FloatOrZero(data))
    [] header = CA_RELATIVE_VELOCITY_TO_MASSLESS_BODY_KMS ->
         SetParsed(self, "velocity_to_massless_body", FloatOrZero(data))
    [] header = CA_THREE_SIGMA_TIME_UNCERTAINTY -> SetAttr(self, "time_uncertainty", data)
    [] header = CA_ABSOLUTE_MAGNITUDE -> Magnitude(self, data)
    [] OTHER -> self

RECURSIVE CaLoop(_, _)
CaLoop(self, close_approach) ==
  IF close_approach = <<>> \/ Raised(self) THEN self
  ELSE CaLoop(CaField(self, Head(close_approach)[1], Head(close_approach)[2]),
              Tail(close_approach))

CloseApproach(close_approach) ==
  LET looped == CaLoop([a \in {"magnitude"} |-> Float("0.0")], close_approach)
      self == IF hasattr(looped, "velocity") THEN looped
              ELSE SetAttr(looped, "velocity", float(Float("0.0")))
  IN  IF Raised(looped) THEN looped ELSE SetAttr(self, "neo", NoRef)


----------------------------------------------------------------------------
(* database.py: the indexes and the lookups *)

\* A dict is a function from its keys; d[k] = v overwrites or adds.
DictSet(d, k, v) == [x \in DOMAIN d \cup {k} |-> IF x = k THEN v ELSE d[x]]
EmptyDict == [x \in {} |-> 0]

\* The loop of lines 71-72 from position idx + 1 on (idx is enumerate's index).
RECURSIVE DesignationLoop(_, _, _)
DesignationLoop(map, _neos, idx) ==
  IF idx >= Len(_neos) THEN map
  ELSE DesignationLoop(DictSet(map, _neos[idx + 1]["designation"], idx), _neos, idx + 1)

create_neo_designation_index_map(_neos) == DesignationLoop(EmptyDict, _neos, 0)

\* The loop of lines 85-86.
RECURSIVE NameLoop(_, _, _)
NameLoop(map, _neos, idx) ==
  IF idx >= Len(_neos) THEN map
  ELSE NameLoop(DictSet(map, _neos[idx + 1]["name"], idx), _neos, idx + 1)

create_neo_name_index_map(_neos) == NameLoop(EmptyDict, _neos, 0)

get_neo_by_designation_Truthy(map, designation) ==
  IF designation \in DOMAIN map /\ map[designation] # 0
  THEN map[designation] + 1 ELSE NoRef

\* map.get(designation, None) is None exactly when the key is missing; the
\* object returned, self._neos[data_index], is the one at position data_index + 1.
get_neo_by_designation(map, designation) ==
  IF designation \in DOMAIN map THEN map[designation] + 1 ELSE NoRef

get_neo_by_name_Truthy(map, name) ==
  IF name \in DOMAIN map /\ map[name] # 0 THEN map[name] + 1 ELSE NoRef

get_neo_by_name(map, name) ==
  IF name \in DOMAIN map THEN map[name] + 1 ELSE NoRef

----------------------------------------------------------------------------
(* database.py: NEODatabase.__init__, the linking pass of lines 54-60 *)

Link_NoAppend(st, k, neo) ==
  IF neo # NoRef
  THEN [neos |-> st.neos,
        approaches |-> [st.approaches EXCEPT ![k] = SetAttr(@, "neo", neo)]]
  ELSE st

Link_Prepend(st, k, neo) ==
  IF neo # NoRef
  THEN [neos |-> [st.neos EXCEPT ![neo] =
                    SetAttr(@, "approaches", <<k>> \o @["approaches"])],
        approaches |-> [st.approaches EXCEPT ![k] = SetAttr(@, "neo", neo)]]
  ELSE st

Link_Always(st, k, neo) ==
  LET n == IF neo = NoRef THEN 1 ELSE neo
  IN  IF Len(st.neos) = 0 THEN st
      ELSE [neos |-> [st.neos EXCEPT ![n] =
                        SetAttr(@, "approaches", Append(@["approaches"], k))],
            approaches |-> [st.approaches EXCEPT ![k] = SetAttr(@, "neo", n)]]

\* Lines 58-60: an object is always true, None is false.
Link(st, k, neo) ==
  IF neo # NoRef
  THEN [neos |-> [st.neos EXCEPT ![neo] =
                    SetAttr(@, "approaches", Append(@["approaches"], k))],
        approaches |-> [st.approaches EXCEPT ![k] = SetAttr(@, "neo", neo)]]
  ELSE st

RECURSIVE LinkLoop(_, _, _)
LinkLoop(st, map, k) ==
  IF k > Len(st.approaches) THEN st
  ELSE LET approach_designation == st.approaches[k]["_designation"]
           neo == get_neo_by_designation(map, approach_designation)
       IN  LinkLoop(Link(st, k, neo), map, k + 1)

----------------------------------------------------------------------------
(* database.py: query.  A filter is a predicate on an approach; the model  *)
(* draws filters from a small family of predicates.                        *)

FilterNames == {"des433", "linked"}

Apply(filter, approach) ==
  CASE filter = "des433" -> approach["_designation"] = Str(<<"433">>)
    [] filter = "linked" -> approach["neo"] # NoRef

RECURSIVE FilterLoop_NoReset(_, _, _, _)
FilterLoop_NoReset(approach, filters, j, passes) ==
  IF j > Len(filters) THEN passes
  ELSE IF Apply(filters[j], approach)
       THEN FilterLoop_NoReset(approach, filters, j + 1, TRUE)
       ELSE passes

\* The loop of lines 153-159 from filter j on; passes is passes_filter.
RECURSIVE FilterLoop(_, _, _, _)
FilterLoop(approach, filters, j, passes) ==
  IF j > Len(filters) THEN passes
  ELSE IF Apply(filters[j], approach) THEN FilterLoop(approach, filters, j + 1, TRUE)
       ELSE FALSE

RECURSIVE Evaluated_NoBreak(_, _, _, _)
Evaluated_NoBreak(_approaches, filters, k, j) ==
  IF j > Len(filters) THEN <<>>
  ELSE <<<<k, j>>>> \o Evaluated_NoBreak(_approaches, filters, k, j + 1)

\* The filters the loop of lines 153-159 calls on approach k, in call order.
RECURSIVE Evaluated(_, _, _, _)
Evaluated(_approaches, filters, k, j) ==
  IF j > Len(filters) THEN <<>>
  ELSE IF Apply(filters[j], _approaches[k])
       THEN <<<<k, j>>>> \o Evaluated(_approaches, filters, k, j + 1)
       ELSE <<<<k, j>>>>

passes_filter_InitiallyTrue(approach, filters) == FilterLoop(approach, filters, 1, TRUE)

\* Lines 152-161: passes_filter starts False.
passes_filter(approach, filters) == FilterLoop(approach, filters, 1, FALSE)

\* The second loop (lines 151-162) from approach k on, up to its next yield.
RECURSIVE SecondLoop(_, _, _, _)
SecondLoop(_approaches, filters, k, evals) ==
  IF k > Len(_approaches) THEN [pc |-> "done", i |-> Len(_approaches), evals |-> evals]
  ELSE LET seen == evals \o Evaluated(_approaches, filters, k, 1)
       IN  IF passes_filter(_approaches[k], filters)
           THEN [pc |-> "loop2", i |-> k, evals |-> seen]
           ELSE SecondLoop(_approaches, filters, k + 1, seen)

\* The first loop (lines 147-149) from approach k on; when it is exhausted
\* control falls through to the second loop.
FirstLoop(_approaches, filters, k, evals) ==
  IF k <= Len(_approaches) THEN [pc |-> "loop1", i |-> k, evals |-> evals]
  ELSE SecondLoop(_approaches, filters, 1, evals)

RECURSIVE EvaluatedFrom(_, _, _)
EvaluatedFrom(_approaches, filters, k) ==
  IF k > Len(_approaches) THEN <<>>
  ELSE Evaluated(_approaches, filters, k, 1) \o EvaluatedFrom(_approaches, filters, k + 1)

\* The results computed as a batch when the first element is asked for.
Resume_Batch(_approaches, g) ==
  LET r == CASE g.pc = "start" ->
                  IF Len(g.filters) = 0 THEN FirstLoop(_approaches, g.filters, 1, g.evals)
                  ELSE SecondLoop(_approaches, g.filters, 1, g.evals)
             [] g.pc = "loop1" -> FirstLoop(_approaches, g.filters, g.i + 1, g.evals)
             [] g.pc = "loop2" -> SecondLoop(_approaches, g.filters, g.i + 1, g.evals)
             [] OTHER -> [pc |-> "done", i |-> g.i, evals |-> g.evals]
  IN  IF g.pc = "start" /\ g.filters # <<>>
      THEN [r EXCEPT !.evals = EvaluatedFrom(_approaches, g.filters, 1)]
      ELSE IF g.pc = "loop2" THEN [r EXCEPT !.evals = g.evals]
      ELSE r

\* The generator resumed by next(): from where it is suspended to its next
\* yield (pc "loop1" at line 149, "loop2" at line 162) or to its end.
Resume(_approaches, g) ==
  CASE g.pc = "start" ->
         IF Len(g.filters) = 0 THEN FirstLoop(_approaches, g.filters, 1, g.evals)
         ELSE SecondLoop(_approaches, g.filters, 1, g.evals)
    [] g.pc = "loop1" -> FirstLoop(_approaches, g.filters, g.i + 1, g.evals)
    [] g.pc = "loop2" -> SecondLoop(_approaches, g.filters, g.i + 1, g.evals)
    [] OTHER -> [pc |-> "done", i |-> g.i, evals |-> g.evals]

\* earlier: whether query had been called before the call that made this
\* generator (the model's record of the call history).
NoGenerator ==
  [pc |-> "none", filters |-> <<>>, i |-> 0, out |-> <<>>, evals |-> <<>>,
   earlier |-> FALSE]

NewGenerator_KeepsCursor(g, filters) ==
  [pc |-> IF g.pc = "none" THEN "start" ELSE g.pc, filters |-> filters,
   i |-> g.i, out |-> g.out, evals |-> g.evals, earlier |-> g.pc # "none"]

\* Calling a generator function runs none of its body.
NewGenerator(g, filters) ==
  [pc |-> "start", filters |-> filters, i |-> 0, out |-> <<>>, evals |-> <<>>,
   earlier |-> g.pc # "none"]

----------------------------------------------------------------------------
(* models.py: CloseApproach.serialize *)

str(v) == IF v = None THEN Str(<<"None">>) ELSE Str(v.val)

\* Lines 250-261 when self.neo is None.
SerializeDefaults(d) ==
  SetAttr(SetAttr(SetAttr(d, "name", Str(<<>>)),
                  "diameter", Str(<<"nan">>)),
          "hazardous", Str(<<"False">>))

serialize(self, _neos) ==
  IF ~hasattr(self, "time") \/ ~hasattr(self, "distance")
     \/ ~hasattr(self, "_designation")
  THEN Raise("AttributeError")
  ELSE LET approach ==
             [a \in {"datetime_utc", "distance_au", "velocity_km_s", "designation"} |->
                CASE a = "datetime_utc" -> datetime_to_str(self["time"])
                  [] a = "distance_au" -> self["distance"]
                  [] a = "velocity_km_s" -> self["velocity"]
                  [] a = "designation" -> self["_designation"]]
       IN  IF self["neo"] # NoRef
           THEN LET neo == _neos[self["neo"]]
                IN  SetAttr(SetAttr(SetAttr(approach,
                      "name", IF hasattr(neo, "name") /\ neo["name"] # None
                              THEN neo["name"] ELSE Str(<<>>)),
                      "diameter", neo["diameter"]),
                      "hazardous", str(neo["hazardous"]))
           ELSE SerializeDefaults(approach)


----------------------------------------------------------------------------
(* The rows the loaders read.  A row is the zipped sequence of (data,      *)
(* column name) pairs that extract.py hands to a constructor.              *)

Seqs(S, n) == UNION {[1..m -> S] : m \in 0..n}

Text(chunk) == IF chunk = "" THEN Str(<<>>) ELSE Str(<<chunk>>)

NeoRow(pdes, name, diameter, pha) ==
  << <<Text("2000433"), NEO_ID_FIELD>>, <<Text("20000433"), Text("spkid")>>,
     <<Text(pdes), NEO_PRIMARY_DESIGNATION_FIELD>>, <<Str(name), NEO_NAME_FIELD>>,
     <<Text(diameter), NEO_DIAMETER_FIELD>>, <<Text(pha), NEO_HAZARD_FIELD>> >>

CaRow(des, cd, v_rel, h) ==
  << <<Text(des), CA_PRIMARY_DESIGNATION_FIELD>>, <<Text("659"), CA_ORBIT_ID>>,
     <<Text("2458849.75"), CA_TIME_OF_CLOSE_APPROACH_JD>>,
     <<Text(cd), CA_TIME_OF_CLOSE_APPROACH_CD_FORMATTED>>,
     <<Text("0.150"), CA_APPROACH_DISTANCE_AU>>,
     <<Text("0.150"), CA_APPROACH_DISTANCE_MIN_AU>>,
     <<Text("0.150"), CA_APPROACH_DISTANCE_MAX_AU>>,
     <<Text(v_rel), CA_RELATIVE_VELOCITY_TO_APPROACH_BODY_KMS>>,
     <<Text("5.5"), CA_RELATIVE_VELOCITY_TO_MASSLESS_BODY_KMS>>,
     <<Text("< 00:01"), CA_THREE_SIGMA_TIME_UNCERTAINTY>>,
     <<h, CA_ABSOLUTE_MAGNITUDE>> >>

Eros == <<"E", "r", "o", "s">>
QuotedEros == <<"\"">> \o Eros \o <<"\"">>

ErosRaw == <<" ", " ">> \o QuotedEros \o <<" ">>

\* Rows of the store's specifications: a named object and a nameless one;
\* for the lookups also a second row under the first one's designation and
\* a second row under the first one's name.
NeoRows ==
  { NeoRow("433", QuotedEros, "16.84", "N"),
    NeoRow("1036", <<>>, "", "Y") }

LookupNeoRows ==
  NeoRows \cup { NeoRow("433", <<"\"", "\"">>, "", "y"), NeoRow("719", Eros, "12", "") }

\* Inputs of the record constructors taken alone.
RawNames == Seqs({"\"", " ", "E"}, MaxRawLen) \cup {ErosRaw}
RawDiameters == {"", "16.84"}
RawHazards == {"Y", "y", "N", ""}
RawNumbers == {None, Text(""), Text("5.5"), Text("12")}

\* A field of a record: missing from it, or present with a raw value.
FieldChoices == {<<>>} \cup {<<v>> : v \in RawNumbers}
Pairs(choice, header) == [n \in 1..Len(choice) |-> <<choice[n], header>>]

PartialCaRow(c) ==
  << <<Text("433"), CA_PRIMARY_DESIGNATION_FIELD>>,
     <<Text("2020-Jan-01 06:00"), CA_TIME_OF_CLOSE_APPROACH_CD_FORMATTED>>,
     <<Text("0.150"), CA_APPROACH_DISTANCE_AU>> >>
  \o Pairs(c.dist_max, CA_APPROACH_DISTANCE_MAX_AU)
  \o Pairs(c.v_rel, CA_RELATIVE_VELOCITY_TO_APPROACH_BODY_KMS)
  \o Pairs(c.v_inf, CA_RELATIVE_VELOCITY_TO_MASSLESS_BODY_KMS)
  \o Pairs(c.h, CA_ABSOLUTE_MAGNITUDE)

\* Approaches of the two designations above and of one no object has.
CaRows ==
  { CaRow("433", "2020-Jan-01 06:00", "5.5", None),
    CaRow("1036", "2021-Feb-3 12:30", "", Text("22.1")),
    CaRow("99942", "2020-Jan-01 06:00", "12", None) }

FilterLists == Seqs(FilterNames, MaxFilters)

DesignationArgs ==
  {Text("433"), Text("1036"), Text("719"), Text("99942"), Text(""), None}

NameArgs == {Str(Eros), Str(QuotedEros), Text(""), Text("None"), None}

----------------------------------------------------------------------------
(* The operations *)

Call(op, a, v) == [op |-> op, arg |-> a, val |-> v]

Init ==
  /\ phase = "load"
  /\ neos = <<>>
  /\ approaches = <<>>
  /\ designation_index_map = EmptyDict
  /\ name_to_index_map = EmptyDict
  /\ gen = NoGenerator
  /\ ret = Call("none", None, None)

\* extract.py, extract_data: one line of the file (lines 40-45).
extract_data(rows) ==
  /\ phase = "load"
  /\ Len(neos) < MaxNeos
  /\ \E raw_neo_data_item \in rows :
       LET neo == NearEarthObject(raw_neo_data_item)
       IN  IF Raised(neo) THEN phase' = "failed" /\ neos' = neos
           ELSE phase' = phase /\ neos' = Append(neos, neo)
  /\ UNCHANGED <<approaches, designation_index_map, name_to_index_map, gen, ret>>

\* extract.py, extract_json: one record of the file (lines 72-76).
extract_json ==
  /\ phase = "load"
  /\ Len(approaches) < MaxApproaches
  /\ \E raw_approach_data_item \in CaRows :
       LET close_approach == CloseApproach(raw_approach_data_item)
       IN  IF Raised(close_approach) THEN phase' = "failed" /\ approaches' = approaches
           ELSE phase' = phase /\ approaches' = Append(approaches, close_approach)
  /\ UNCHANGED <<neos, designation_index_map, name_to_index_map, gen, ret>>

\* NEODatabase.__init__ (database.py lines 25-60).
NEODatabase ==
  /\ phase = "load"
  /\ LET designations == create_neo_designation_index_map(neos)
         linked == LinkLoop([neos |-> neos, approaches |-> approaches], designations, 1)
     IN  /\ designation_index_map' = designations
         /\ name_to_index_map' = create_neo_name_index_map(neos)
         /\ neos' = linked.neos
         /\ approaches' = linked.approaches
  /\ phase' = "ready"
  /\ UNCHANGED <<gen, ret>>

lookup_by_designation ==
  /\ phase = "ready"
  /\ \E designation \in DesignationArgs :
       ret' = Call("get_neo_by_designation", designation,
                   get_neo_by_designation(designation_index_map, designation))
  /\ UNCHANGED <<phase, neos, approaches, designation_index_map, name_to_index_map, gen>>

lookup_by_name ==
  /\ phase = "ready"
  /\ \E name \in NameArgs :
       ret' = Call("get_neo_by_name", name, get_neo_by_name(name_to_index_map, name))
  /\ UNCHANGED <<phase, neos, approaches, designation_index_map, name_to_index_map, gen>>

\* A call of query: the generator object is made, none of its body runs.
query ==
  /\ phase = "ready"
  /\ \E filters \in FilterLists :
       /\ gen' = NewGenerator(gen, filters)
       /\ ret' = Call("query", filters, None)
  /\ UNCHANGED <<phase, neos, approaches, designation_index_map, name_to_index_map>>

\* The caller pulls the next element: the generator runs to its next yield
\* (val is the reference of the approach yielded) or ends (StopIteration).
next_result ==
  /\ phase = "ready"
  /\ gen.pc \in {"start", "loop1", "loop2"}
  /\ LET r == Resume(approaches, gen)
     IN  /\ gen' = [gen EXCEPT !.pc = r.pc, !.i = r.i, !.evals = r.evals,
                               !.out = IF r.pc = "done" THEN @ ELSE Append(@, r.i)]
         /\ ret' = Call("next", gen.filters, IF r.pc = "done" THEN NoRef ELSE r.i)
  /\ UNCHANGED <<phase, neos, approaches, designation_index_map, name_to_index_map>>

\* write.py lines 33-34 and 66-67: the element just pulled is serialized.
write_serialize ==
  /\ phase = "ready"
  /\ ret.op = "next"
  /\ ret.val # NoRef
  /\ ret' = Call("serialize", ret.val, serialize(approaches[ret.val], neos))
  /\ UNCHANGED <<phase, neos, approaches, designation_index_map, name_to_index_map, gen>>

Next ==
  \/ extract_data(NeoRows)
  \/ extract_json
  \/ NEODatabase
  \/ query
  \/ next_result
  \/ write_serialize

Spec == Init /\ [][Next]_vars

\* The record constructors taken alone, on rows of any shape: a constructor
\* reads nothing but its row, so one call per behaviour covers them all.
new_NearEarthObject ==
  /\ ret.op = "none"
  /\ \E name \in RawNames, diameter \in RawDiameters, pha \in RawHazards :
       ret' = Call("NearEarthObject",
                   [name |-> name, diameter |-> diameter, pha |-> pha],
                   NearEarthObject(NeoRow("433", name, diameter, pha)))
  /\ UNCHANGED <<phase, neos, approaches, designation_index_map, name_to_index_map, gen>>

new_CloseApproach ==
  /\ ret.op = "none"
  /\ \E c \in [dist_max : FieldChoices, v_rel : FieldChoices,
                v_inf : FieldChoices, h : FieldChoices] :
       ret' = Call("CloseApproach", c, CloseApproach(PartialCaRow(c)))
  /\ UNCHANGED <<phase, neos, approaches, designation_index_map, name_to_index_map, gen>>

NextRecord == new_NearEarthObject \/ new_CloseApproach

SpecRecord == Init /\ [][NextRecord]_vars

NextLookup ==
  \/ extract_data(LookupNeoRows)
  \/ extract_json
  \/ NEODatabase
  \/ lookup_by_designation
  \/ lookup_by_name

SpecLookup == Init /\ [][NextLookup]_vars

----------------------------------------------------------------------------
(* Vocabulary of the properties *)

Range(seq) == {seq[n] : n \in 1..Len(seq)}
Count(seq, x) == Cardinality({n \in 1..Len(seq) : seq[n] = x})

\* The approaches the generator has yielded so far, as positions of the store.
Yielded == Range(gen.out)

\* Every filter of the running query returns true on approach k.
AllPass(k) == \A j \in 1..Len(gen.filters) : Apply(gen.filters[j], approaches[k])

\* Approach k's foreign key is the designation of object n.
Designates(k, n) == neos[n]["designation"] = approaches[k]["_designation"]
Matched(k) == \E n \in 1..Len(neos) : Designates(k, n)

DistinctDesignations ==
  \A m, n \in 1..Len(neos) : m # n => neos[m]["designation"] # neos[n]["designation"]

UniqueNames ==
  \A m, n \in 1..Len(neos) :
    m # n /\ neos[m]["name"] # None => neos[m]["name"] # neos[n]["name"]

----------------------------------------------------------------------------
(* Properties *)

\* C1: query(filters) yields an approach if and only if every filter returns
\* true on it: whatever has been yielded passes all filters, and once the
\* generator has ended every approach it did not yield fails some filter.
C1_QueryYieldsExactlyThePassing ==
  /\ \A k \in Yielded : AllPass(k)
  /\ gen.pc = "done" =>
       \A k \in (1..Len(approaches)) \ Yielded :
         \E j \in 1..Len(gen.filters) : ~Apply(gen.filters[j], approaches[k])

\* A finished query of two filters that yielded one approach and rejected
\* another one that passes its first filter.
C1_Witness ==
  /\ gen.pc = "done"
  /\ Len(gen.filters) = 2
  /\ Yielded # {}
  /\ \E k \in (1..Len(approaches)) \ Yielded : Apply(gen.filters[1], approaches[k])

\* C2: query with no filter yields every approach of the store exactly once,
\* in the store's order, and then ends: what it has yielded is always the
\* positions 1, 2, ... in order, and when it has ended they are all of them.
C2_EmptyQueryYieldsAllOnce ==
  gen.pc # "none" /\ gen.filters = <<>> =>
    /\ gen.out = [n \in 1..Len(gen.out) |-> n]
    /\ Len(gen.out) <= Len(approaches)
    /\ gen.pc = "done" => Len(gen.out) = Len(approaches)
    /\ ret.op = "next" /\ ret.val = NoRef => gen.pc = "done"

\* A query with no filter has ended over a store of two approaches or more.
C2_Witness ==
  /\ gen.pc = "done"
  /\ gen.filters = <<>>
  /\ Len(approaches) >= 2
  /\ Len(gen.out) = Len(approaches)

\* C3: after construction, every approach whose foreign key is the
\* designation of some object refers to an object of that designation, and
\* occurs exactly once in that object's approaches.
C3_MatchedApproachIsLinked ==
  phase = "ready" =>
    \A k \in 1..Len(approaches) :
      Matched(k) =>
        /\ approaches[k]["neo"] # NoRef
        /\ Designates(k, approaches[k]["neo"])
        /\ Count(neos[approaches[k]["neo"]]["approaches"], k) = 1

\* A store of two objects under one designation and two approaches of it.
C3_Witness ==
  /\ phase = "ready"
  /\ Len(neos) >= 2
  /\ ~DistinctDesignations
  /\ \E k, l \in 1..Len(approaches) :
       k # l /\ Matched(k) /\ approaches[k]["neo"] = approaches[l]["neo"]

\* C4: in a store of pairwise distinct designations, lookup by designation
\* returns the object of that designation and no other, and returns
\* not-found (no exception) when no object has it.
C4_LookupByDesignation ==
  ret.op = "get_neo_by_designation" /\ DistinctDesignations =>
    /\ \A n \in 1..Len(neos) : neos[n]["designation"] = ret.arg => ret.val = n
    /\ (\A n \in 1..Len(neos) : neos[n]["designation"] # ret.arg) => ret.val = NoRef

\* A lookup that returned the first of two objects.
C4_Witness ==
  /\ ret.op = "get_neo_by_designation"
  /\ DistinctDesignations
  /\ Len(neos) >= 2
  /\ ret.val = 1
  /\ neos[1]["designation"] = ret.arg

\* C5: names being unique among the named objects, lookup by name with an
\* object's name returns that object, and no lookup with a string returns an
\* object without a name.
C5_LookupByName ==
  ret.op = "get_neo_by_name" /\ UniqueNames /\ IsStr(ret.arg) =>
    /\ \A n \in 1..Len(neos) : neos[n]["name"] = ret.arg => ret.val = n
    /\ ret.val # NoRef => neos[ret.val]["name"] # None

\* A lookup by name that returned the first object, in a store that also
\* holds an object without a name.
C5_Witness ==
  /\ ret.op = "get_neo_by_name"
  /\ UniqueNames
  /\ IsStr(ret.arg)
  /\ ret.val = 1
  /\ \E n \in 1..Len(neos) : neos[n]["name"] = None

\* C6: the name index has an entry only for objects with a present,
\* non-empty name: None and the empty string are no keys of it, and lookup
\* by name with None or the empty string returns not-found.
C6_NameIndexHasNoAbsentKey ==
  /\ phase = "ready" =>
       /\ None \notin DOMAIN name_to_index_map
       /\ Str(<<>>) \notin DOMAIN name_to_index_map
  /\ ret.op = "get_neo_by_name" /\ ret.arg \in {None, Str(<<>>)} => ret.val = NoRef

\* C7: the constructor removes the surrounding double quotes and the
\* surrounding whitespace of the raw name: two spaces, a quote, Eros, a quote
\* and a space give Eros; the empty raw name and the raw name of two quotes
\* give an absent name.
C7_NameIsNormalized ==
  ret.op = "NearEarthObject" =>
    /\ ret.arg.name = ErosRaw => ret.val["name"] = Str(Eros)
    /\ ret.arg.name \in {<<>>, <<"\"", "\"">>} => ret.val["name"] = None

\* The attribute a field with a fallback is stored in.
FallbackAttr(f) ==
  CASE f = "dist_max" -> "approach_distance_max"
    [] f = "v_rel" -> "velocity"
    [] f = "v_inf" -> "velocity_to_massless_body"
    [] f = "h" -> "magnitude"

\* C8: construction of an approach does not fail on an absent or empty value
\* of max distance, either velocity or magnitude: such a value gives the
\* attribute 0.0, and a non-empty value gives the parsed float.
C8_FallbackFields ==
  ret.op = "CloseApproach" =>
    /\ ~Raised(ret.val)
    /\ \A f \in {"dist_max", "v_rel", "v_inf", "h"} :
         ret.arg[f] # <<>> =>
           ret.val[FallbackAttr(f)] =
             IF ret.arg[f][1] \in {None, Str(<<>>)} THEN Float("0.0")
             ELSE float(ret.arg[f][1])

\* C9: an approach whose foreign key is no object's designation does not
\* make construction fail: afterwards it refers to no object, is in no
\* object's approaches, is yielded by a query with no filter, and serializes
\* with the defaults: empty name, 'nan' diameter, 'False' hazardous flag.
C9_UnmatchedApproachIsTolerated ==
  /\ phase # "failed"
  /\ phase = "ready" =>
       \A k \in 1..Len(approaches) :
         ~Matched(k) =>
           /\ approaches[k]["neo"] = NoRef
           /\ \A n \in 1..Len(neos) : k \notin Range(neos[n]["approaches"])
           /\ gen.pc = "done" /\ gen.filters = <<>> => k \in Yielded
           /\ ret.op = "serialize" /\ ret.arg = k =>
                /\ ~Raised(ret.val)
                /\ ret.val["name"] = Str(<<>>)
                /\ ret.val["diameter"] = Str(<<"nan">>)
                /\ ret.val["hazardous"] = Str(<<"False">>)
                /\ ret.val["designation"] = approaches[k]["_designation"]

\* The serialization of a yielded approach that matches none of the store's
\* objects, of which there is one at least.
C9_Witness ==
  /\ phase = "ready"
  /\ Len(neos) >= 1
  /\ ret.op = "serialize"
  /\ ~Matched(ret.arg)
  /\ ~Raised(ret.val)

\* C10: what one call of query yields is a subsequence of the store's
\* order: the positions yielded increase strictly, and they are exactly the
\* passing positions up to the generator's own position, which a new call
\* starts at the beginning whatever earlier calls did.
C10_YieldedInStoreOrder ==
  gen.pc # "none" =>
    /\ \A m, n \in 1..Len(gen.out) : m < n => gen.out[m] < gen.out[n]
    /\ Yielded \subseteq 1..Len(approaches)
    /\ gen.pc = "start" => gen.i = 0 /\ gen.out = <<>>
    /\ Yielded = {k \in 1..gen.i : AllPass(k)}

\* A later call of query, with a filter, that left out the first approach
\* and yielded the second.
C10_Witness ==
  /\ gen.earlier
  /\ gen.filters # <<>>
  /\ gen.out = <<2>>

\* The filters called on approach k so far, by their place among the
\* filters, in call order.
CallsOn(k) ==
  LET calls == SelectSeq(gen.evals, LAMBDA e : e[1] = k)
  IN  [n \in 1..Len(calls) |-> calls[n][2]]

\* The second loop is past approach k: its filter loop has run on it.
Processed(k) ==
  /\ gen.filters # <<>>
  /\ gen.pc \in {"loop2", "done"}
  /\ k <= gen.i

\* The places of the filters that return false on approach k.
Failing(k) == {j \in 1..Len(gen.filters) : ~Apply(gen.filters[j], approaches[k])}

\* C11: on one approach the filters are called in the given order and the
\* calls stop at the first filter that returns false: the calls on it are
\* the filters 1, 2, ... each once, every one but the last called returned
\* true, and once the approach is processed they reach the first failing
\* filter, or the last filter when none fails.
C11_FiltersShortCircuitInOrder ==
  \A k \in 1..Len(approaches) :
    /\ CallsOn(k) = [n \in 1..Len(CallsOn(k)) |-> n]
    /\ Len(CallsOn(k)) <= Len(gen.filters)
    /\ \A j \in Failing(k) : \A n \in 1..Len(CallsOn(k)) : CallsOn(k)[n] <= j
    /\ Processed(k) =>
         /\ Failing(k) = {} => Len(CallsOn(k)) = Len(gen.filters)
         /\ \A j \in Failing(k) :
              (\A l \in Failing(k) : j <= l) => Len(CallsOn(k)) = j
    /\ ~Processed(k) => CallsOn(k) = <<>>

\* A query of two filters has rejected one approach on its first filter and
\* has called both filters on another.
C11_Witness ==
  /\ Len(gen.filters) = 2
  /\ \E k, l \in 1..Len(approaches) :
       /\ Processed(k) /\ 1 \in Failing(k) /\ CallsOn(k) = <<1>>
       /\ Processed(l) /\ CallsOn(l) = <<1, 2>>

\* The approaches a filter has been called on so far.
Evaluations == {gen.evals[n][1] : n \in 1..Len(gen.evals)}

\* What holds of the filter calls made so far: none before the first
\* element is asked for, none on an approach after the one the caller was
\* last given, and none on an approach before every passing approach
\* ahead of it was given to the caller.
LazySoFar ==
  /\ gen.pc \in {"none", "start"} => gen.evals = <<>>
  /\ \A k \in Evaluations : k <= gen.i
  /\ gen.pc \in {"loop1", "loop2"} => gen.i \in Yielded
  /\ \A k \in Evaluations :
       \A l \in 1..(k - 1) : AllPass(l) /\ gen.filters # <<>> => l \in Yielded

\* A step that is no pull calls no filter: the log of calls changes only
\* when the caller pulls an element (it grows) or calls query again (the
\* new generator's log is empty).
OnlyPullsEvaluate ==
  gen'.evals # gen.evals =>
    \/ /\ ret'.op = "next"
       /\ Len(gen'.evals) > Len(gen.evals)
       /\ SubSeq(gen'.evals, 1, Len(gen.evals)) = gen.evals
    \/ /\ ret'.op = "query"
       /\ gen'.evals = <<>>

\* C12: query produces its results on demand: no filter is called before the
\* first element is pulled, a filter is called on the approach at a position
\* only after the elements yielded from the positions before it were pulled,
\* and when the caller does not pull, no filter is called.
C12_ResultsOnDemand == []LazySoFar /\ [][OnlyPullsEvaluate]_vars

\* The caller was given the first of two passing approaches and serialized
\* it: the filters were called on the first approach and not on the second.
C12_Witness ==
  /\ ret.op = "serialize"
  /\ gen.filters # <<>>
  /\ gen.out = <<1>>
  /\ Len(approaches) = 2
  /\ AllPass(2)
  /\ Evaluations = {1}

\* The positions 1, 2, ... of the store's approaches, in order.
Positions == [k \in 1..Len(approaches) |-> k]

\* C13: after construction over pairwise distinct designations, the
\* approaches of every object are the store's approaches of its
\* designation, in the store's order; each of them refers back to the
\* object, and none is among the approaches of two objects.
C13_ApproachesOfObjectInStoreOrder ==
  phase = "ready" /\ DistinctDesignations =>
    /\ \A n \in 1..Len(neos) :
         /\ neos[n]["approaches"] = SelectSeq(Positions, LAMBDA k : Designates(k, n))
         /\ \A k \in Range(neos[n]["approaches"]) : approaches[k]["neo"] = n
    /\ \A m, n \in 1..Len(neos) :
         m # n => Range(neos[m]["approaches"]) \cap Range(neos[n]["approaches"]) = {}

\* A store of two objects of different designations and of two approaches,
\* both of the first object's designation.
C13_Witness ==
  /\ phase = "ready"
  /\ DistinctDesignations
  /\ Len(neos) = 2
  /\ neos[1]["approaches"] = <<1, 2>>

=============================================================================
